---- MODULE Spec2Model ----
(***************************************************************************)
(* A model of the stock-data ETL pipeline:                                 *)
(*   src/stock_data_scraper/dags/scrapers/stock_data_scraper.py            *)
(*     (StockDataScraper: get_soup, get_stock_link, fetch_data,            *)
(*      save_to_csv, convert_to_float, process_data, load_to_bigquery,     *)
(*      run_pipeline)                                                      *)
(*   src/main.py, src/dump_bigq.py (the stand-alone twins of the above).   *)
(*                                                                         *)
(* Three specifications share the module:                                  *)
(*   Spec      one run_pipeline call, one step per HTTP request or stage;  *)
(*   SpecNorm  the numeric normalisation of process_data on one column;    *)
(*   SpecLink  get_stock_link on one listing row.                          *)
(***************************************************************************)
EXTENDS Integers, Sequences, FiniteSets, TLC

VARIABLES
    \* ---- one run of StockDataScraper.run_pipeline ----
    pc,           \* where the run is: "listing", "stocks", "rows", "fetch_end", "save",
                  \* "process", "load", "done"
    result,       \* what run_pipeline gave its caller: "none", "True", "False", "raised"
    stage_log,    \* the stages that ran, in order, each with how it ended
    listing,      \* how the listing page fared: "pending", "ok", "fetch_failed", "no_tbody", "bad_row"
    n,            \* len(historical_data_links)
    idx,          \* the for loop's position, 1-based (0: loop not entered)
    call,         \* the latest get_soup call: "none", "running", "returned", "raised"
    i,            \* get_soup's loop variable in that call
    attempts,     \* requests.get calls made in that call
    slept,        \* seconds of back-off slept in that call
    visits,       \* the pages get_soup was called for, in order: 0 the listing, s stock s
    soup,         \* the document the latest successful get_soup call returned
    last,         \* how the latest loop iteration ended
    paused,       \* seconds slept at the end of the latest loop iteration
    skipped,      \* the stocks whose iteration ended in a skip or an exception
    stock_requested, \* whether any per-stock page was ever requested
    headers,      \* self.headers
    total_data,   \* self.total_data
    row,          \* rows of the current stock's tbody handled so far
    cols,         \* the cell texts of the row handled last
    csv_file,     \* stock_data.csv: "absent", "prior", "written", "partial"
    processed,    \* whether self.processed_data is set
    inline_key,   \* GOOGLE_APPLICATION_CREDENTIALS_JSON was given
    key_file,     \* temp_key.json exists
    \* ---- one call of get_stock_link ----
    lpc,          \* "idle", "ready", "done"
    href,         \* link_element.get('href', ''), a sequence of text pieces
    link_text,    \* link_element.text, a sequence of characters
    link_out,     \* what get_stock_link returned
    \* ---- the numeric normalisation of one column by process_data ----
    npc,          \* "idle", "ready", "done"
    column,       \* the column's name
    cells,        \* the column's cell texts, each a sequence of text pieces
    norm_out      \* what became of the column

pvars == <<pc, result, stage_log, listing, n, idx, call, i, attempts, slept, visits, soup,
           last, paused, skipped, stock_requested, headers, total_data, row, cols, csv_file,
           processed, inline_key, key_file>>

lvars == <<lpc, href, link_text, link_out>>

nvars == <<npc, column, cells, norm_out>>

vars == <<pvars, lvars, nvars>>

\* ---------------------------------------------------------------- bounds
MaxStocks == 2
MaxRows == 2
MaxCols == 1
MaxHrefLen == 3
MaxTextLen == 3
MaxCellLen == 3
NormRows == 2

\* ------------------------------------------------------ program constants
max_retries == 3
BackoffSeconds == 3
PauseSeconds == 2

\* ---------------------------------------------------------------- helpers
Range(s) == {s[k] : k \in 1..Len(s)}

SeqsUpTo(S, m) == UNION {[1..k -> S] : k \in 0..m}

\* ------------------------------------------------------------- the pages
NoDoc == [kind |-> "none"]

\* The listing page as fetch_data reads it: whether a tbody matches
\* '.*datatable.*', and for each of its rows whether row.find("a") finds a link.
ListingPages ==
    {[kind |-> "listing", tbody |-> FALSE, anchors |-> <<>>]}
    \cup {[kind |-> "listing", tbody |-> TRUE, anchors |-> a] :
             a \in SeqsUpTo(BOOLEAN, MaxStocks)}

\* The top of a stock's page as fetch_data reads it: whether a table matches
\* '.*freeze-column.*', whether it has a thead and how many th cells that
\* holds, and whether it has a tbody. The rows of the tbody are read one by one
\* (RowStep), each with the number of td cells it turns out to hold.
StockPages ==
    {[kind |-> "stock", table |-> FALSE, thead |-> FALSE, nth |-> 0, tbody |-> FALSE]}
    \cup {[kind |-> "stock", table |-> TRUE, thead |-> FALSE, nth |-> 0, tbody |-> tb] :
             tb \in BOOLEAN}
    \cup {[kind |-> "stock", table |-> TRUE, thead |-> TRUE, nth |-> h, tbody |-> tb] :
             h \in 0..MaxCols, tb \in BOOLEAN}

\* The widths a row of a stock's tbody may have: up to one cell more than the
\* widest header section.
RowWidths == 0..(MaxCols + 1)

\* The header cell texts of stock s's page, and the cell texts of a row of w
\* cells: every text names its stock and its column, so a record shows where
\* each of its values came from.
page_headers(s, p) == [c \in 1..p.nth |-> <<"th", s, c>>]

row_cols(s, w) == [c \in 1..w |-> <<"td", s, c>>]

\* ------------------------------------------------------------- get_soup
\* range(max_retries) starts afresh on every call.
CallI == IF call = "running" THEN i ELSE 0

CallAttempts == IF call = "running" THEN attempts ELSE 0

CallSlept == IF call = "running" THEN slept ELSE 0

\* The except branch of get_soup, entered with loop variable k: the last
\* attempt re-raises, any other one sleeps and goes round again.
get_soup_sleeps_always(k) == BackoffSeconds

get_soup_reraises(k) == k = max_retries - 1

get_soup_backoff(k) == IF get_soup_reraises(k) THEN 0 ELSE BackoffSeconds

\* One iteration of get_soup's loop whose request failed.
get_soup_failure ==
    /\ attempts' = CallAttempts + 1
    /\ slept' = CallSlept + get_soup_backoff(CallI)
    /\ IF get_soup_reraises(CallI)
         THEN call' = "raised" /\ i' = CallI
         ELSE call' = "running" /\ i' = CallI + 1
    /\ soup' = soup

\* One iteration of get_soup's loop whose request succeeded with document p,
\* which is returned at once.
get_soup_success(p) ==
    /\ attempts' = CallAttempts + 1
    /\ slept' = CallSlept
    /\ call' = "returned"
    /\ i' = CallI
    /\ soup' = p

\* self.get_soup(url) is called for page u: a call that is not going round its
\* loop is a new one.
get_soup_called(u) ==
    visits' = IF call = "running" THEN visits ELSE Append(visits, u)

\* ---------------------------------------------------------- run_pipeline
\* run_pipeline ends: a stage returned a falsy value, or raised.
run_ends(stage, how) ==
    /\ stage_log' = Append(stage_log, <<stage, how>>)
    /\ result' = how
    /\ pc' = "done"

\* run_pipeline after fetch_data returned ok: "if not self.fetch_data(): return False".
run_pipeline_ignores_fetch(ok) ==
    /\ stage_log' = Append(stage_log, <<"fetch", IF ok THEN "ok" ELSE "False">>)
    /\ result' = result
    /\ pc' = "save"

run_pipeline_after_fetch(ok) ==
    IF ok
      THEN /\ stage_log' = Append(stage_log, <<"fetch", "ok">>)
           /\ result' = result
           /\ pc' = "save"
      ELSE run_ends("fetch", "False")

\* ------------------------------------------------------------ fetch_data
\* The end of one iteration of the for loop over historical_data_links: the
\* next stock, or the end of the loop.
end_iteration_stays ==
    /\ idx' = idx
    /\ pc' = (IF idx < n THEN "stocks" ELSE "fetch_end")
    /\ UNCHANGED <<result, stage_log>>

end_iteration ==
    /\ IF idx < n
         THEN idx' = idx + 1 /\ pc' = "stocks"
         ELSE idx' = idx /\ pc' = "fetch_end"
    /\ UNCHANGED <<result, stage_log>>

\* "except Exception as e: ... continue" around one stock's work.
stock_except_propagates ==
    /\ paused' = 0
    /\ idx' = idx
    /\ run_ends("fetch", "raised")

stock_except ==
    /\ paused' = 0
    /\ end_iteration

\* "if not len(self.headers)": the header cells are adopted only while none are known.
discover_headers_always(hs, s, p) == IF p.thead THEN page_headers(s, p) ELSE hs

discover_headers(hs, s, p) ==
    IF Len(hs) = 0
      THEN (IF p.thead THEN page_headers(s, p) ELSE hs)
      ELSE hs

\* "if len(cols) == len(self.headers)"
accept_row_zip(cs, hs) == Len(cs) >= Len(hs)

accept_row(cs, hs) == Len(cs) = Len(hs)

\* dict(zip(hs, cs)): zip stops at the shorter, a repeated key keeps its last value.
dictzip(hs, cs) ==
    LET m == IF Len(hs) < Len(cs) THEN Len(hs) ELSE Len(cs)
        last_at(h) == CHOOSE j \in 1..m :
                         /\ hs[j] = h
                         /\ \A j2 \in (j + 1)..m : hs[j2] # h
    IN  [h \in {hs[j] : j \in 1..m} |-> cs[last_at(h)]]

\* data = dict(zip(self.headers, cols)); data['stock_name'] = stock_name
make_record(s, hs, cs) == [stock_name |-> s, fields |-> dictzip(hs, cs)]

fetch_unchanged == UNCHANGED <<csv_file, processed, inline_key, key_file, lvars, nvars>>

\* A request for the listing page fails.
ListingRequestFail ==
    /\ pc = "listing"
    /\ get_soup_called(0)
    /\ get_soup_failure
    /\ IF get_soup_reraises(CallI)
         THEN /\ listing' = "fetch_failed"
              /\ run_ends("fetch", "raised")
         ELSE UNCHANGED <<listing, pc, result, stage_log>>
    /\ UNCHANGED <<n, idx, last, paused, skipped, stock_requested, headers, total_data, row, cols>>
    /\ fetch_unchanged

\* A request for the listing page succeeds with page p.
ListingRequestOk(p) ==
    /\ pc = "listing"
    /\ get_soup_called(0)
    /\ get_soup_success(p)
    /\ IF ~p.tbody
         THEN /\ listing' = "no_tbody"
              /\ run_pipeline_after_fetch(FALSE)
              /\ UNCHANGED <<n, idx>>
         ELSE IF \E k \in 1..Len(p.anchors) : ~p.anchors[k]
           THEN \* get_stock_link: row.find("a") is None
                /\ listing' = "bad_row"
                /\ run_ends("fetch", "raised")
                /\ UNCHANGED <<n, idx>>
           ELSE /\ listing' = "ok"
                /\ n' = Len(p.anchors)
                /\ idx' = (IF Len(p.anchors) = 0 THEN 0 ELSE 1)
                /\ pc' = (IF Len(p.anchors) = 0 THEN "fetch_end" ELSE "stocks")
                /\ UNCHANGED <<result, stage_log>>
    /\ UNCHANGED <<last, paused, skipped, stock_requested, headers, total_data, row, cols>>
    /\ fetch_unchanged

\* A request for the current stock's page fails.
StockRequestFail ==
    /\ pc = "stocks"
    /\ get_soup_called(idx)
    /\ get_soup_failure
    /\ stock_requested' = TRUE
    /\ IF get_soup_reraises(CallI)
         THEN /\ last' = "fetch_failed"
              /\ skipped' = skipped \cup {idx}
              /\ stock_except
         ELSE UNCHANGED <<last, paused, skipped, idx, pc, result, stage_log>>
    /\ UNCHANGED <<listing, n, headers, total_data, row, cols>>
    /\ fetch_unchanged

\* "print(... Skipping...); continue": no pause, the next stock.
stock_skipped ==
    /\ skipped' = skipped \cup {idx}
    /\ paused' = 0
    /\ row' = row
    /\ end_iteration

\* A request for the current stock's page succeeds with a page whose top is
\* p: the table is looked up, the headers are learned if none are known, the
\* tbody is looked up; a page without table or tbody is skipped.
StockRequestOk(p) ==
    /\ pc = "stocks"
    /\ get_soup_called(idx)
    /\ get_soup_success(p)
    /\ stock_requested' = TRUE
    /\ headers' = IF p.table THEN discover_headers(headers, idx, p) ELSE headers
    /\ IF ~p.table
         THEN /\ last' = "no_table"
              /\ stock_skipped
         ELSE IF ~p.tbody
           THEN /\ last' = "no_tbody"
                /\ stock_skipped
           ELSE /\ pc' = "rows"
                /\ row' = 0
                /\ UNCHANGED <<last, paused, skipped, idx, result, stage_log>>
    /\ UNCHANGED <<listing, n, total_data, cols>>
    /\ fetch_unchanged

\* One iteration of "for row in rows": the next row holds w cells.
RowStep(w) ==
    /\ pc = "rows"
    /\ row < MaxRows
    /\ row' = row + 1
    /\ cols' = row_cols(idx, w)
    /\ total_data' = IF accept_row(row_cols(idx, w), headers)
                       THEN Append(total_data, make_record(idx, headers, row_cols(idx, w)))
                       ELSE total_data
    /\ UNCHANGED <<pc, result, stage_log, listing, n, idx, call, i, attempts, slept, soup, visits,
                   last, paused, skipped, stock_requested, headers>>
    /\ fetch_unchanged

\* The rows are exhausted: the count is printed, the run pauses, the loop goes on.
RowsEnd ==
    /\ pc = "rows"
    /\ last' = "scraped"
    /\ paused' = PauseSeconds
    /\ end_iteration
    /\ UNCHANGED <<skipped, listing, n, call, i, attempts, slept, soup, visits, stock_requested, headers,
                   total_data, row, cols>>
    /\ fetch_unchanged

\* An exception is raised while the rows of the current stock are handled.
RowRaise ==
    /\ pc = "rows"
    /\ last' = "error"
    /\ skipped' = skipped \cup {idx}
    /\ stock_except
    /\ UNCHANGED <<listing, n, call, i, attempts, slept, soup, visits, stock_requested, headers,
                   total_data, row, cols>>
    /\ fetch_unchanged

\* The loop is over: "if not self.total_data: return False", else "return
\* True", and run_pipeline goes by the result; the locals of fetch_data and
\* get_soup are gone.
FetchDataReturn ==
    /\ pc = "fetch_end"
    /\ run_pipeline_after_fetch(total_data # <<>>)
    /\ call' = "none"
    /\ i' = 0
    /\ attempts' = 0
    /\ slept' = 0
    /\ soup' = NoDoc
    /\ row' = 0
    /\ cols' = <<>>
    /\ UNCHANGED <<listing, n, idx, last, paused, skipped, stock_requested, headers,
                   total_data, visits>>
    /\ fetch_unchanged

\* ----------------------------------------------------------- save_to_csv
\* csv.DictWriter(output_file, keys) with keys = total_data[0].keys():
\* writerows raises ValueError on a row holding a key that is no field name.
csv_fits(d) == \A k \in 1..Len(d) : DOMAIN d[k].fields \subseteq DOMAIN d[1].fields

\* save_to_csv, whose result run_pipeline does not read.
Save ==
    /\ pc = "save"
    /\ IF total_data = <<>>
         THEN /\ csv_file' = csv_file
              /\ stage_log' = Append(stage_log, <<"save", "False">>)
              /\ pc' = "process"
              /\ result' = result
         ELSE IF csv_fits(total_data)
           THEN /\ csv_file' = "written"
                /\ stage_log' = Append(stage_log, <<"save", "ok">>)
                /\ pc' = "process"
                /\ result' = result
           ELSE /\ csv_file' = "partial"
                /\ run_ends("save", "raised")
    /\ UNCHANGED <<listing, n, idx, call, i, attempts, slept, soup, visits, last, paused,
                   skipped, stock_requested, headers, row, cols, total_data, processed, inline_key, key_file,
                   lvars, nvars>>

\* save_to_csv cannot open stock_data.csv for writing.
SaveIOError ==
    /\ pc = "save"
    /\ total_data # <<>>
    /\ run_ends("save", "raised")
    /\ UNCHANGED <<listing, n, idx, call, i, attempts, slept, soup, visits, last, paused,
                   skipped, stock_requested, headers, row, cols, total_data, csv_file, processed,
                   inline_key, key_file,
                   lvars, nvars>>

\* ---------------------------------------------------------- process_data
\* What pd.read_csv finds in a stock_data.csv that this batch did not write.
csv_records == <<[stock_name |-> 0, fields |-> <<>>]>>

\* "if not self.total_data and os.path.exists(self.csv_path)"
batch_to_process ==
    IF total_data = <<>> /\ csv_file # "absent" THEN csv_records ELSE total_data

\* process_data runs to its end.
ProcessOk ==
    /\ pc = "process"
    /\ total_data' = batch_to_process
    /\ IF batch_to_process = <<>>
         THEN /\ run_ends("process", "False")
              /\ processed' = processed
         ELSE /\ processed' = TRUE
              /\ stage_log' = Append(stage_log, <<"process", "ok">>)
              /\ pc' = "load"
              /\ result' = result
    /\ UNCHANGED <<listing, n, idx, call, i, attempts, slept, soup, visits, last, paused,
                   skipped, stock_requested, headers, row, cols, csv_file, inline_key, key_file,
                   lvars, nvars>>

\* process_data raises: pd.to_datetime on a Date it cannot parse, float() on a
\* Change cell it cannot parse (SpecNorm has the cells).
ProcessRaise ==
    /\ pc = "process"
    /\ batch_to_process # <<>>
    /\ total_data' = batch_to_process
    /\ run_ends("process", "raised")
    /\ UNCHANGED <<listing, n, idx, call, i, attempts, slept, soup, visits, last, paused,
                   skipped, stock_requested, headers, row, cols, csv_file, processed, inline_key, key_file,
                   lvars, nvars>>

\* ------------------------------------------------------ load_to_bigquery
\* The warehouse client raises in create_bigquery_dataset_table,
\* load_table_from_dataframe, job.result or get_table.
load_failed_swallowed ==
    /\ stage_log' = Append(stage_log, <<"load", "raised">>)
    /\ result' = "True"
    /\ pc' = "done"

load_failed == run_ends("load", "raised")

\* load_to_bigquery runs to its end.
LoadOk ==
    /\ pc = "load"
    /\ IF ~processed
         THEN run_ends("load", "False") /\ key_file' = key_file
         ELSE /\ stage_log' = Append(stage_log, <<"load", "ok">>)
              /\ result' = "True"
              /\ pc' = "done"
              /\ key_file' = FALSE
    /\ UNCHANGED <<listing, n, idx, call, i, attempts, slept, soup, visits, last, paused,
                   skipped, stock_requested, headers, row, cols, total_data, csv_file, processed, inline_key,
                   lvars, nvars>>

LoadRaise ==
    /\ pc = "load"
    /\ processed
    /\ load_failed
    /\ UNCHANGED <<listing, n, idx, call, i, attempts, slept, soup, visits, last, paused,
                   skipped, stock_requested, headers, row, cols, total_data, csv_file, processed,
                   inline_key, key_file,
                   lvars, nvars>>

\* -------------------------------------------------------- get_stock_link
\* An href is a sequence of text pieces; "a" is any word that does not begin
\* with "http" or with "/".
HrefPieces == {"http", "https", "://", "/", "a"}

Hrefs == SeqsUpTo(HrefPieces, MaxHrefLen)

\* The link's text is a sequence of characters, " " being any whitespace.
LinkTexts == SeqsUpTo({" ", "A"}, MaxTextLen)

base_url == <<"https", "://", "www.investing.com">>

historical_data == <<"-historical-data">>

\* href.startswith('http'), href.startswith('/')
startswith_http(h) == h # <<>> /\ h[1] \in {"http", "https"}

startswith_slash(h) == h # <<>> /\ h[1] = "/"

\* str.strip(): the text without its leading and trailing whitespace.
strip(t) ==
    LET inked == {k \in 1..Len(t) : t[k] # " "}
    IN  IF inked = {}
          THEN <<>>
          ELSE LET lo == CHOOSE k \in inked : \A k2 \in inked : k <= k2
                   hi == CHOOSE k \in inked : \A k2 \in inked : k2 <= k
               IN  SubSeq(t, lo, hi)

get_stock_link(h, t) ==
    [stock_name |-> strip(t),
     link |-> IF startswith_http(h)
                THEN h \o historical_data
                ELSE IF startswith_slash(h)
                  THEN base_url \o h \o historical_data
                  ELSE base_url \o <<"/">> \o h \o historical_data]

\* get_stock_link is called on one row of the listing.
GetStockLink ==
    /\ lpc = "ready"
    /\ link_out' = get_stock_link(href, link_text)
    /\ lpc' = "done"
    /\ UNCHANGED <<href, link_text, pvars, nvars>>

\* ------------------------------------------ process_data, numeric columns
\* A cell text is a sequence of text pieces: the digit "1", ".", ",", the
\* suffixes, "%", and the word "nan".
NormPieces == {"1", ".", ",", "K", "M", "B", "%", "nan"}

CellTexts == SeqsUpTo(NormPieces, MaxCellLen)

\* "Price" stands for each of numeric_columns (Price, Open, High, Low), "Vol"
\* for the volume column under any of its names, "Change" for the change column.
Columns == {"Price", "Vol", "Change"}

None == [kind |-> "None", mant |-> 0, exp |-> 0]

NaN == [kind |-> "NaN", mant |-> 0, exp |-> 0]

ValueError == [kind |-> "ValueError", mant |-> 0, exp |-> 0]

Text == [kind |-> "text", mant |-> 0, exp |-> 0]

\* The number mant * 10^exp.
Num(m, e) == [kind |-> "num", mant |-> m, exp |-> e]

RECURSIVE Ones(_)
\* The value of k digits "1".
Ones(k) == IF k = 0 THEN 0 ELSE 10 * Ones(k - 1) + 1

Count(t, c) == Cardinality({k \in 1..Len(t) : t[k] = c})

\* float(t) for a text t of these pieces: digits with at most one point and at
\* least one digit, or "nan"; anything else is a ValueError.
pyfloat(t) ==
    IF t = <<"nan">>
      THEN NaN
      ELSE IF /\ \A k \in 1..Len(t) : t[k] \in {"1", "."}
              /\ Count(t, ".") <= 1
              /\ Count(t, "1") >= 1
        THEN LET dot == IF Count(t, ".") = 0
                          THEN Len(t) + 1
                          ELSE CHOOSE k \in 1..Len(t) : t[k] = "."
             IN  Num(Ones(Count(t, "1")), dot - Len(t) - (IF dot > Len(t) THEN 1 ELSE 0))
        ELSE ValueError

\* x * 10^k in floating point: an error stays the error, nan stays nan.
times10(v, k) == IF v.kind = "num" THEN Num(v.mant, v.exp + k) ELSE v

\* str.replace(',', '')
remove_commas(t) == SelectSeq(t, LAMBDA c : c # ",")

RECURSIVE rstrip_percent(_)
\* str.rstrip('%')
rstrip_percent(t) ==
    IF t # <<>> /\ t[Len(t)] = "%" THEN rstrip_percent(SubSeq(t, 1, Len(t) - 1)) ELSE t

Front(t) == SubSeq(t, 1, Len(t) - 1)

\* convert_to_float(x): the suffix branches parse x[:-1] as it stands; only
\* the last branch removes the commas; a ValueError becomes None.
convert_to_float(x) ==
    IF x = <<>> \/ x = <<"nan">>
      THEN None
      ELSE LET r == IF x[Len(x)] = "K" THEN times10(pyfloat(Front(x)), 3)
                    ELSE IF x[Len(x)] = "M" THEN times10(pyfloat(Front(x)), 6)
                    ELSE IF x[Len(x)] = "B" THEN times10(pyfloat(Front(x)), 9)
                    ELSE pyfloat(remove_commas(x))
           IN  IF r = ValueError THEN None ELSE r

\* The lambda of the numeric columns, after .str.replace(',', '').
price_cell(x) ==
    LET y == remove_commas(x)
    IN  IF y # <<>> /\ y # <<"nan">> THEN pyfloat(y) ELSE None

\* The lambda of the change column, after .str.rstrip('%').
change_cell(x) ==
    LET y == rstrip_percent(x)
    IN  IF y # <<>> /\ y # <<"nan">> THEN pyfloat(y) ELSE None

Raises(vs) == \E k \in 1..Len(vs) : vs[k] = ValueError

Unassigned(cs, raised) ==
    [raised |-> raised, assigned |-> FALSE, values |-> [k \in 1..Len(cs) |-> Text]]

\* What process_data makes of column col holding the texts cs: a numeric
\* column is converted inside try/except, which leaves the column as it was
\* when a cell raises; the change column is converted outside any try.
process_column(col, cs) ==
    IF col = "Price"
      THEN LET vs == [k \in 1..Len(cs) |-> price_cell(cs[k])]
           IN  IF Raises(vs)
                 THEN Unassigned(cs, FALSE)
                 ELSE [raised |-> FALSE, assigned |-> TRUE, values |-> vs]
      ELSE IF col = "Vol"
        THEN [raised |-> FALSE, assigned |-> TRUE,
              values |-> [k \in 1..Len(cs) |-> convert_to_float(cs[k])]]
        ELSE LET vs == [k \in 1..Len(cs) |-> change_cell(cs[k])]
             IN  IF Raises(vs)
                   THEN Unassigned(cs, TRUE)
                   ELSE [raised |-> FALSE, assigned |-> TRUE, values |-> vs]

\* process_data normalises the column.
Normalize ==
    /\ npc = "ready"
    /\ norm_out' = process_column(column, cells)
    /\ npc' = "done"
    /\ UNCHANGED <<column, cells, pvars, lvars>>

\* ------------------------------------------------- the parts not running
NoLink == [stock_name |-> <<>>, link |-> <<>>]

LinkIdle ==
    /\ lpc = "idle"
    /\ href = <<>>
    /\ link_text = <<>>
    /\ link_out = NoLink

NoColumn == [raised |-> FALSE, assigned |-> FALSE, values |-> <<>>]

NormIdle ==
    /\ npc = "idle"
    /\ column = "none"
    /\ cells = <<>>
    /\ norm_out = NoColumn

\* -------------------------------------------------------- specification
\* A scraper object as __init__ leaves it, its credentials apart.
PipelineFresh ==
    /\ result = "none"
    /\ stage_log = <<>>
    /\ listing = "pending"
    /\ n = 0
    /\ idx = 0
    /\ call = "none"
    /\ i = 0
    /\ attempts = 0
    /\ slept = 0
    /\ visits = <<>>
    /\ soup = NoDoc
    /\ last = "none"
    /\ paused = 0
    /\ skipped = {}
    /\ stock_requested = FALSE
    /\ headers = <<>>
    /\ total_data = <<>>
    /\ row = 0
    /\ cols = <<>>
    /\ processed = FALSE

\* The state after StockDataScraper.__init__: _setup_bigquery_auth has written
\* temp_key.json when the key came inline; no stock_data.csv is on disk yet.
PipelineInit ==
    /\ pc = "listing"
    /\ inline_key \in BOOLEAN
    /\ key_file = inline_key
    /\ csv_file = "absent"
    /\ PipelineFresh

PipelineIdle ==
    /\ pc = "idle"
    /\ inline_key = FALSE
    /\ key_file = FALSE
    /\ csv_file = "absent"
    /\ PipelineFresh

Next ==
    \/ ListingRequestFail
    \/ \E p \in ListingPages : ListingRequestOk(p)
    \/ StockRequestFail
    \/ \E p \in StockPages : StockRequestOk(p)
    \/ \E w \in RowWidths : RowStep(w)
    \/ RowsEnd
    \/ RowRaise
    \/ FetchDataReturn
    \/ Save
    \/ SaveIOError
    \/ ProcessOk
    \/ ProcessRaise
    \/ LoadOk
    \/ LoadRaise

Init == PipelineInit /\ LinkIdle /\ NormIdle

Spec == Init /\ [][Next]_vars

\* The run with every row as wide as the headers: how far a run gets does
\* not depend on what its rows hold.
FairNext ==
    \/ ListingRequestFail
    \/ \E p \in ListingPages : ListingRequestOk(p)
    \/ StockRequestFail
    \/ \E p \in StockPages : StockRequestOk(p)
    \/ RowStep(Len(headers))
    \/ RowsEnd
    \/ RowRaise
    \/ FetchDataReturn
    \/ Save
    \/ SaveIOError
    \/ ProcessOk
    \/ ProcessRaise
    \/ LoadOk
    \/ LoadRaise

\* The run is one sequential thread: a request ends within its timeout, by a
\* response or an exception, and every other statement runs to its end, so a
\* step that can be taken is taken.
FairSpec == Init /\ [][FairNext]_vars /\ WF_vars(FairNext)

\* A run started again in a directory where an earlier run left its
\* stock_data.csv: a new object, the file of self.csv_path on disk.
InitRestart ==
    /\ pc = "listing"
    /\ inline_key \in BOOLEAN
    /\ key_file = inline_key
    /\ csv_file = "prior"
    /\ PipelineFresh
    /\ LinkIdle
    /\ NormIdle

SpecRestart == InitRestart /\ [][Next]_vars

\* get_stock_link alone, on any href and link text.
InitLink ==
    /\ lpc = "ready"
    /\ href \in Hrefs
    /\ link_text \in LinkTexts
    /\ link_out = NoLink
    /\ PipelineIdle
    /\ NormIdle

NextLink == GetStockLink

SpecLink == InitLink /\ [][NextLink]_vars

\* The normalisation of one column alone, on any cell texts.
InitNorm ==
    /\ npc = "ready"
    /\ column \in Columns
    /\ cells \in [1..NormRows -> CellTexts]
    /\ norm_out = NoColumn
    /\ PipelineIdle
    /\ LinkIdle

NextNorm == Normalize

SpecNorm == InitNorm /\ [][NextNorm]_vars

\* ================================================================ claims
\* The stages of run_pipeline, in the order of its code.
StageOrder == <<"fetch", "save", "process", "load">>

IsPrefix(s, t) == Len(s) <= Len(t) /\ \A k \in 1..Len(s) : s[k] = t[k]

\* C1: a get_soup call makes at most 3 requests; it returns on the first
\* request that succeeds, on attempt k after exactly k-1 back-offs of 3 s, with
\* the document of that response; it raises only after 3 failed requests, and
\* then it has slept 2 back-offs: none follows the last failure.
C1_RetryBudget ==
    /\ attempts <= 3
    /\ call = "running" => attempts \in 1..2 /\ i = attempts /\ slept = 3 * attempts
    /\ call = "returned" => attempts \in 1..3 /\ slept = 3 * (attempts - 1) /\ soup # NoDoc
    /\ call = "raised" => attempts = 3 /\ slept = 6

\* A stock's page failed twice and was returned by the third request.
C1_Witness ==
    /\ call = "returned"
    /\ stock_requested
    /\ attempts = 3
    /\ slept = 6
    /\ soup.kind = "stock"

\* A step of the loop that ends a stock's iteration in a failure.
IterationFailed ==
    /\ pc \in {"stocks", "rows"}
    /\ skipped' # skipped

\* Such a step keeps the batch and moves to the next stock or to the loop's end.
C2_FailureStep ==
    IterationFailed =>
       /\ total_data' = total_data
       /\ result' = "none"
       /\ IF idx < n
            THEN pc' = "stocks" /\ idx' = idx + 1
            ELSE pc' = "fetch_end" /\ idx' = idx

\* Past the loop every stock of the listing was visited, and fetch_data
\* answered by the batch alone.
C2_AllVisited ==
    /\ (listing = "ok" /\ pc \notin {"stocks", "rows"}) => idx = n
    /\ (listing = "ok" /\ pc \notin {"stocks", "rows", "fetch_end"}) =>
          stage_log[1] = <<"fetch", IF total_data = <<>> THEN "False" ELSE "ok">>

\* A step of the loop only ever appends to the batch.
C2_NothingDropped ==
    pc \in {"stocks", "rows"} => IsPrefix(total_data, total_data')

\* C2: a stock whose iteration ends in a failure (its fetch failed for good,
\* its page has no table or no tbody, an exception was raised) leaves the batch
\* as it was and the loop goes on with the next stock, or, after the last
\* stock, fetch_data ends by its own rule; no step of the loop drops a record;
\* and fetch_data, once the listing was read, ends only with every stock visited.
C2_StockFailureIsolated ==
    /\ []C2_AllVisited
    /\ [][C2_FailureStep]_vars
    /\ [][C2_NothingDropped]_vars

\* The first stock failed, the second was scraped, and the batch went on to be saved.
C2_Witness ==
    /\ pc = "save"
    /\ n = 2
    /\ 1 \in skipped
    /\ 2 \notin skipped
    /\ last = "scraped"
    /\ total_data # <<>>

\* C3: when the listing page cannot be fetched in 3 requests, or has no tbody
\* of the data-table class, no stock page is requested, stock_data.csv is not
\* written, nothing is normalised or loaded, and run_pipeline ends in failure:
\* it raises in the first case and returns False in the second.
C3_ListingFailureFatal ==
    listing \in {"fetch_failed", "no_tbody"} =>
       /\ ~stock_requested
       /\ idx = 0
       /\ csv_file = "absent"
       /\ ~processed
       /\ pc = "done"
       /\ result = (IF listing = "fetch_failed" THEN "raised" ELSE "False")
       /\ stage_log = << <<"fetch", result>> >>

\* The listing page came without its table body.
C3_Witness ==
    /\ listing = "no_tbody"
    /\ call = "returned"
    /\ result = "False"

\* One row read: kept whole, or not at all.
C4_RowStep ==
    (pc = "rows" /\ row' = row + 1) =>
       IF Len(cols') = Len(headers)
         THEN /\ Len(total_data') = Len(total_data) + 1
              /\ IsPrefix(total_data, total_data')
              /\ LET rec == total_data'[Len(total_data')]
                 IN  /\ rec.stock_name = idx
                     /\ DOMAIN rec.fields = Range(headers)
                     /\ \A j \in 1..Len(headers) : rec.fields[headers[j]] = cols'[j]
         ELSE total_data' = total_data

\* C4: a row is appended to the batch exactly when it holds as many cells as
\* there are headers, as the record that maps each header to the cell of its
\* column and carries the stock's name; any other row changes nothing.
C4_RowAcceptance == [][C4_RowStep]_vars

\* The first row of a stock was kept and its second row, one cell too wide, was dropped.
C4_Witness ==
    /\ pc = "rows"
    /\ row = 2
    /\ Len(headers) = 1
    /\ Len(cols) = 2
    /\ Len(total_data) = 1
    /\ total_data[1].stock_name = idx

\* A known header set stays.
C5_HeaderStep == headers # <<>> => headers' = headers

\* C5: once the header set is known (non-empty), no step changes it: it is
\* learned at most once in a run, whatever the later pages hold.
C5_HeadersLearnedOnce == [][C5_HeaderStep]_vars

\* The second stock's page has a header section of its own, and the headers
\* are still those of the first stock.
C5_Witness ==
    /\ idx = 2
    /\ pc = "rows"
    /\ soup.thead
    /\ soup.nth = 1
    /\ headers = <<<<"th", 1, 1>>>>

\* The log of the stages run so far, against the order of the code.
C9_Stages ==
    /\ Len(stage_log) <= 4
    /\ \A k \in 1..Len(stage_log) : stage_log[k][1] = StageOrder[k]
    /\ \A k \in 1..(Len(stage_log) - 1) : stage_log[k][2] = "ok"
    /\ (result # "none") <=> (pc = "done")
    /\ (result = "True") <=> (Len(stage_log) = 4 /\ stage_log[4] = <<"load", "ok">>)
    /\ (stage_log # <<>> /\ stage_log[Len(stage_log)][2] # "ok") =>
          (pc = "done" /\ result = stage_log[Len(stage_log)][2])
    /\ (pc = "load") => (processed /\ Len(stage_log) = 3)

\* No step is taken once the run has ended.
C9_NoStepAfterEnd == pc # "done"

\* C9: the stages run in the order fetch, save, process, load, each at most
\* once; a stage runs only if all before it succeeded; the run ends with the
\* first stage that fails, a failed load included; and run_pipeline returns
\* True only if the load ran to its end.
C9_StagesForward ==
    /\ []C9_Stages
    /\ [][C9_NoStepAfterEnd]_vars

\* The load was attempted and failed: the run ended by raising.
C9_Witness ==
    /\ Len(stage_log) = 4
    /\ stage_log[4] = <<"load", "raised">>
    /\ result = "raised"

\* C10: when the key came inline, temp_key.json is gone whenever the run has ended.
C10_KeyFileDeleted == (pc = "done" /\ inline_key) => ~key_file

\* C11: whenever the run is about to request the page of a stock after the
\* first, the iteration of the stock before it ended with a pause of 2 seconds,
\* whether that stock was scraped or skipped.
C11_PauseAfterEachStock ==
    (pc = "stocks" /\ idx >= 2) => paused = PauseSeconds

\* Every get_soup call makes at most 3 requests; the calls are one for the
\* listing and then one per stock, in the order of the listing, none twice:
\* at most 3 * (n + 1) requests in all; and past the loop every stock has
\* had its call.
C12_Bounded ==
    /\ attempts <= 3
    /\ Len(visits) <= n + 1
    /\ \A k \in 1..Len(visits) : visits[k] = k - 1
    /\ 3 * (Len(visits) - 1) + attempts <= 3 * (n + 1)
    /\ (listing = "ok" /\ pc \notin {"stocks", "rows"}) => Len(visits) = n + 1

\* C12: every run ends: the listing and each stock's page get at most 3
\* requests each, each stock is visited exactly once and in listing order, and
\* the run reaches its outcome, True, False or an exception.
C12_RunTerminates ==
    /\ []C12_Bounded
    /\ <>(pc = "done" /\ result \in {"True", "False", "raised"})

\* Both stocks of a listing of two were skipped, the second after its third
\* failed request, and the run ended.
C12_Witness ==
    /\ pc = "done"
    /\ n = 2
    /\ visits = <<0, 1, 2>>
    /\ skipped = {1, 2}
    /\ last = "fetch_failed"
    /\ result = "False"

StockSkipped ==
    /\ IterationFailed
    /\ last' \in {"fetch_failed", "no_table", "no_tbody"}

\* The headers are as they were before the skipped stock's page was read.
C14_SkipStep == StockSkipped => headers' = headers

\* C14: a stock that ends up skipped (fetch failure, no table, no tbody) never
\* sets the header set: the headers come from a stock whose rows are read.
C14_HeadersFromScrapedStock == [][C14_SkipStep]_vars

\* --------------------------------------------- the normalisation as stated
\* A text that reads as a decimal number.
IsDecimal(t) == pyfloat(t).kind = "num"

IsSuffix(c) == c \in {"K", "M", "B"}

SuffixPower(c) == IF c = "K" THEN 3 ELSE IF c = "M" THEN 6 ELSE 9

\* What is left of a cell of column col once the symbols the column allows
\* are taken off: the commas, then the volume's suffix or the change's "%".
Bare(col, x) ==
    LET y == remove_commas(x)
    IN  IF y = <<>> THEN y
        ELSE IF col = "Vol" /\ IsSuffix(y[Len(y)]) THEN Front(y)
        ELSE IF col = "Change" /\ y[Len(y)] = "%" THEN Front(y)
        ELSE y

\* A cell that is empty, "nan", or does not read as a decimal number.
BadCell(col, x) == x = <<>> \/ x = <<"nan">> \/ ~IsDecimal(Bare(col, x))

\* C6: the normalisation of a column never raises; every cell that is empty,
\* "nan" or unparseable becomes None; every cell that is a plain decimal number
\* becomes that number.
C6_NormalisationNeverRaises ==
    npc = "done" =>
       /\ ~norm_out.raised
       /\ \A k \in 1..Len(cells) :
             /\ BadCell(column, cells[k]) => norm_out.values[k] = None
             /\ IsDecimal(cells[k]) => norm_out.values[k] = pyfloat(cells[k])

\* C7: in a column whose cells all read as numbers once their commas, suffix
\* or "%" are taken off, a volume cell ending in K, M or B becomes its prefix,
\* commas removed, times 1e3, 1e6, 1e9; a change cell ending in "%" becomes the
\* number before the "%", commas removed; and a volume cell converts as the
\* same text without its commas does.
C7_CommasRemovedFirst ==
    (npc = "done" /\ \A k \in 1..Len(cells) : ~BadCell(column, cells[k])) =>
       \A k \in 1..Len(cells) :
          LET x == cells[k]
              prefix == remove_commas(Front(x))
          IN  /\ (column = "Vol" /\ IsSuffix(x[Len(x)])) =>
                    norm_out.values[k] = times10(pyfloat(prefix), SuffixPower(x[Len(x)]))
              /\ (column = "Change" /\ x[Len(x)] = "%") =>
                    (~norm_out.raised /\ norm_out.values[k] = pyfloat(prefix))
              /\ (column = "Vol") =>
                    convert_to_float(x) = convert_to_float(remove_commas(x))

\* ------------------------------------------------ the link as stated
\* An absolute URL: a scheme, "://", and something after it.
IsAbsoluteURL(u) == Len(u) >= 3 /\ u[1] \in {"http", "https"} /\ u[2] = "://"

\* C8: the link is href + "-historical-data" for an absolute href, base_url +
\* href + "-historical-data" for one starting with "/", base_url + "/" + href
\* + "-historical-data" for any other; it is an absolute URL ending in
\* "-historical-data"; the stock's name is the link's text, stripped.
C8_LinkResolution ==
    lpc = "done" =>
       /\ link_out.link =
             (IF IsAbsoluteURL(href)
                THEN href \o historical_data
                ELSE IF href # <<>> /\ href[1] = "/"
                  THEN base_url \o href \o historical_data
                  ELSE base_url \o <<"/">> \o href \o historical_data)
       /\ IsAbsoluteURL(link_out.link)
       /\ link_out.link[Len(link_out.link)] = "-historical-data"
       /\ \E lead, trail \in SeqsUpTo({" "}, MaxTextLen) :
             link_text = lead \o link_out.stock_name \o trail
       /\ link_out.stock_name # <<>> =>
             /\ link_out.stock_name[1] # " "
             /\ link_out.stock_name[Len(link_out.stock_name)] # " "

====
